---- MODULE Spec2Model ----
(***************************************************************************)
(* Model of the tag pipeline: load_tag_dataset, inject_or_change_specials, *)
(* build_tag_maps, rearrange_prompt and highlight_text.  A Python str is a *)
(* sequence of one-character strings, its characters those of U+0000 to    *)
(* U+00FF; a csv file is the sequence of rows csv.reader yields, each row  *)
(* a sequence of fields.                                                   *)
(*                                                                         *)
(* df and appended hold the frame.  df is its rows up to the last one the  *)
(* loader gave, in their order.  appended is the rows put behind them, one *)
(* bag for each pl.concat: those rows stand in the frame in the order in   *)
(* which the loop over the set met their tags.  The string hashes of the   *)
(* process fix that order; the state leaves it open, and stands for the    *)
(* frame of every order (IsFrameOf).  dfPrev and appendedPrev hold the     *)
(* frame the last call of the injector was given.                          *)
(***************************************************************************)
EXTENDS Integers, Sequences, FiniteSets, Bags, TLC

VARIABLES pc, file, df, appended, dfPrev, appendedPrev, special, injections,
          tags, alias_map, cat_lookup, text, notate, out, hl

vars == <<pc, file, df, appended, dfPrev, appendedPrev, special, injections,
          tags, alias_map, cat_lookup, text, notate, out, hl>>

----------------------------------------------------------------------------
(* Python str primitives.                                                  *)

\* the characters str.lower() changes: A-Z, then the Latin-1 capitals
UpperLetters == <<"A","B","C","D","E","F","G","H","I","J","K","L","M",
                  "N","O","P","Q","R","S","T","U","V","W","X","Y","Z",
                  "À","Á","Â","Ã","Ä","Å","Æ","Ç","È","É","Ê","Ë","Ì",
                  "Í","Î","Ï","Ð","Ñ","Ò","Ó","Ô","Õ","Ö","Ø","Ù","Ú",
                  "Û","Ü","Ý","Þ">>

\* their images under str.lower(), in the same order
LowerLetters == <<"a","b","c","d","e","f","g","h","i","j","k","l","m",
                  "n","o","p","q","r","s","t","u","v","w","x","y","z",
                  "à","á","â","ã","ä","å","æ","ç","è","é","ê","ë","ì",
                  "í","î","ï","ð","ñ","ò","ó","ô","õ","ö","ø","ù","ú",
                  "û","ü","ý","þ">>

\* the decimal digits int() reads
Digits == <<"0","1","2","3","4","5","6","7","8","9">>

\* the characters str.strip() removes and str.isspace() accepts: tab, LF,
\* VT, FF, CR, FS, GS, RS, US, space, NEL, NBSP
Whitespace == {"\t","\n","","\f","\r","",
               "","",""," ",""," "}

QuoteChars == {"\"", "'"}

\* the lowercase letter of each capital
LowerTable ==
    [c \in { UpperLetters[i] : i \in 1..Len(UpperLetters) } |->
        LowerLetters[CHOOSE i \in 1..Len(UpperLetters) : UpperLetters[i] = c]]

LowerChar(c) == IF c \in DOMAIN LowerTable THEN LowerTable[c] ELSE c

\* str.lower()
Lower(s) == [i \in 1..Len(s) |-> LowerChar(s[i])]

\* str.startswith(p)
StartsWith(s, p) == Len(s) >= Len(p) /\ SubSeq(s, 1, Len(p)) = p

\* s[n:]
DropFirst(s, n) == SubSeq(s, n + 1, Len(s))

\* s has p at index i
MatchesAt(s, i, p) ==
    i + Len(p) - 1 <= Len(s) /\ \A n \in 1..Len(p) : s[i + n - 1] = p[n]

\* str.replace(old, new): non-overlapping occurrences, left to right.
\* ReplaceFrom scans s from index i, done holding the result so far.
RECURSIVE ReplaceFrom(_, _, _, _, _)
ReplaceFrom(s, old, new, i, done) ==
    IF i > Len(s) THEN done
    ELSE IF MatchesAt(s, i, old)
         THEN ReplaceFrom(s, old, new, i + Len(old), done \o new)
         ELSE ReplaceFrom(s, old, new, i + 1, Append(done, s[i]))

Replace(s, old, new) ==
    IF Len(old) = 0 THEN s ELSE ReplaceFrom(s, old, new, 1, <<>>)

\* str.strip(chars): drop leading and trailing characters of the set
RECURSIVE LStripChars(_, _)
LStripChars(s, chars) ==
    IF s # <<>> /\ Head(s) \in chars THEN LStripChars(Tail(s), chars) ELSE s

RECURSIVE RStripChars(_, _)
RStripChars(s, chars) ==
    IF s # <<>> /\ s[Len(s)] \in chars
    THEN RStripChars(SubSeq(s, 1, Len(s) - 1), chars) ELSE s

StripChars(s, chars) == RStripChars(LStripChars(s, chars), chars)

\* str.strip()
Strip(s) == StripChars(s, Whitespace)

\* str.isspace()
IsSpace(s) == s # <<>> /\ \A i \in 1..Len(s) : s[i] \in Whitespace

\* str.split(c) for a one-character separator: always at least one piece.
\* SplitFrom scans s from index i, piece holding the characters since the
\* last separator and done the pieces closed so far.
RECURSIVE SplitFrom(_, _, _, _, _)
SplitFrom(s, c, i, piece, done) ==
    IF i > Len(s) THEN Append(done, piece)
    ELSE IF s[i] = c THEN SplitFrom(s, c, i + 1, <<>>, Append(done, piece))
    ELSE SplitFrom(s, c, i + 1, Append(piece, s[i]), done)

Split(s, c) == SplitFrom(s, c, 1, <<>>, <<>>)

\* sep.join(parts)
RECURSIVE Join(_, _)
Join(parts, sep) ==
    IF parts = <<>> THEN <<>>
    ELSE IF Len(parts) = 1 THEN parts[1]
    ELSE parts[1] \o sep \o Join(Tail(parts), sep)

\* [f(x) for x in xs]
RECURSIVE ConcatAll(_)
ConcatAll(parts) ==
    IF parts = <<>> THEN <<>> ELSE Head(parts) \o ConcatAll(Tail(parts))

NonEmpty(s) == s # <<>>

\* words = [w.strip() for w in text.split(',')]; words = [w for w in words if w]
SplitTerms(s) ==
    LET pieces == Split(s, ",")
        stripped == [i \in 1..Len(pieces) |-> Strip(pieces[i])]
    IN  SelectSeq(stripped, NonEmpty)

\* the whitespace int() skips around the number: that of str.strip() but
\* for the separators FS, GS, RS, US
IntWhitespace == Whitespace \ {"","","",""}

\* sys.get_int_max_str_digits() as the interpreter starts: the most digits
\* int() converts
MaxStrDigits == 4300

\* int(s): optional surrounding whitespace, optional sign, decimal digits
\* with single underscores between them, at most MaxStrDigits digits
DigitValue(c) == (CHOOSE i \in 1..10 : Digits[i] = c) - 1

IsDigit(c) == \E i \in 1..10 : Digits[i] = c

Unsigned(s) == IF s # <<>> /\ Head(s) \in {"+", "-"} THEN Tail(s) ELSE s

IsInt(s) ==
    LET u == Unsigned(StripChars(s, IntWhitespace))
    IN  /\ u # <<>>
        /\ IsDigit(u[1])
        /\ IsDigit(u[Len(u)])
        /\ \A i \in 1..Len(u) : IsDigit(u[i]) \/ u[i] = "_"
        /\ \A i \in 1..(Len(u) - 1) : ~(u[i] = "_" /\ u[i + 1] = "_")
        /\ Cardinality({ i \in 1..Len(u) : IsDigit(u[i]) }) <= MaxStrDigits

\* the value of the digits of u, its underscores passed over
RECURSIVE DigitsValue(_)
DigitsValue(u) ==
    IF u = <<>> THEN 0
    ELSE IF u[Len(u)] = "_" THEN DigitsValue(SubSeq(u, 1, Len(u) - 1))
    ELSE 10 * DigitsValue(SubSeq(u, 1, Len(u) - 1)) + DigitValue(u[Len(u)])

ParseInt(s) ==
    LET t == StripChars(s, IntWhitespace)
        v == DigitsValue(Unsigned(t))
    IN  IF Head(t) = "-" THEN 0 - v ELSE v

----------------------------------------------------------------------------
(* modules/tag_loader.py                                                   *)

\* aliases is None or a list of str
NoAliases == [none |-> TRUE, items |-> <<>>]

AliasList(items) == [none |-> FALSE, items |-> items]

\* def parse_aliases(aliases)
parse_aliases(aliases) ==
    IF aliases = <<>> \/ IsSpace(aliases) THEN NoAliases
    ELSE LET pieces == Split(StripChars(aliases, QuoteChars), ",")
             stripped == [i \in 1..Len(pieces) |-> Strip(pieces[i])]
         IN  AliasList(SelectSeq(stripped, NonEmpty))


\* a loader that keeps rows of three fields
HasThreeFields(row) == Len(row) >= 3

\* if len(row) >= 4
HasAllFields(row) == Len(row) >= 4

\* the dict appended for one row of at least four fields
RowRecord(row) ==
    LET alias_fields == SubSeq(row, 4, Len(row))
        aliases_str == Strip(Join(alias_fields, <<",">>))
    IN  [id |-> row[1],
         category |-> ParseInt(row[2]),
         post_count |-> ParseInt(row[3]),
         aliases |-> parse_aliases(aliases_str)]

\* next(reader) raises StopIteration on a file with no row at all; int()
\* raises ValueError on a kept row whose category or post_count is no
\* integer, or one of more digits than it converts
LoadRaises(f) ==
    \/ f = <<>>
    \/ \E i \in 2..Len(f) :
          HasAllFields(f[i]) /\ ~(IsInt(f[i][2]) /\ IsInt(f[i][3]))

\* def load_tag_dataset(filepath): the header is skipped, short rows too
load_tag_dataset(f) ==
    LET kept == SelectSeq(Tail(f), HasAllFields)
    IN  [i \in 1..Len(kept) |-> RowRecord(kept[i])]

\* the members of SYNTHETIC_CATEGORY_TAGS, in the order the source lists them
SyntheticListed ==
    <<<<"1","g","i","r","l">>,
      <<"2","g","i","r","l","s">>,
      <<"3","g","i","r","l","s">>,
      <<"4","g","i","r","l","s">>,
      <<"5","g","i","r","l","s">>,
      <<"6","g","i","r","l","s">>,
      <<"7","g","i","r","l","s">>,
      <<"8","g","i","r","l","s">>,
      <<"9","g","i","r","l","s">>,
      <<"1","o","t","h","e","r">>,
      <<"2","o","t","h","e","r","s">>,
      <<"3","o","t","h","e","r","s">>,
      <<"4","o","t","h","e","r","s">>,
      <<"5","o","t","h","e","r","s">>,
      <<"6","o","t","h","e","r","s">>,
      <<"7","o","t","h","e","r","s">>,
      <<"8","o","t","h","e","r","s">>,
      <<"9","o","t","h","e","r","s">>,
      <<"1","b","o","y">>,
      <<"2","b","o","y","s">>,
      <<"3","b","o","y","s">>,
      <<"4","b","o","y","s">>,
      <<"5","b","o","y","s">>,
      <<"6","b","o","y","s">>,
      <<"7","b","o","y","s">>,
      <<"8","b","o","y","s">>,
      <<"9","b","o","y","s">>,
      <<"m","a","s","t","e","r","p","i","e","c","e">>,
      <<"b","e","s","t"," ","q","u","a","l","i","t","y">>,
      <<"g","o","o","d"," ","q","u","a","l","i","t","y">>,
      <<"n","o","r","m","a","l"," ","q","u","a","l","i","t","y">>,
      <<"w","o","r","s","t"," ","q","u","a","l","i","t","y">>,
      <<"a","b","s","u","r","d","r","e","s">>,
      <<"h","i","g","h","r","e","s">>,
      <<"m","e","d","i","u","m","r","e","s">>,
      <<"l","o","w","r","e","s">>,
      <<"o","l","d">>,
      <<"e","a","r","l","y">>,
      <<"m","i","d">>,
      <<"r","e","c","e","n","t">>,
      <<"n","e","w","e","s","t">>,
      <<"v","e","r","y"," ","a","w","a">>,
      <<"w","o","r","s","t"," ","a","e","s","t","h","e","t","i","c">>,
      <<"u","l","t","r","a","h","i","g","h","r","e","s">>,
      <<"s","u","p","e","r","r","e","s">>,
      <<"e","x","t","r","e","m","e","r","e","s">>,
      <<"m","e","g","a","r","e","s">>,
      <<"g","i","g","a","r","e","s">>,
      <<"u","l","t","r","a","r","e","s">>,
      <<"s","u","p","e","r","h","i","g","h","r","e","s">>,
      <<"e","x","t","r","e","m","e","h","i","g","h","r","e","s">>,
      <<"m","e","g","a","h","i","g","h","r","e","s">>,
      <<"g","i","g","a","h","i","g","h","r","e","s">>>>

SYNTHETIC_CATEGORY_TAGS ==
    { SyntheticListed[i] : i \in 1..Len(SyntheticListed) }


\* a lookup whose keys keep their letter case
existing_tags_exact(d) == { d[i].id : i \in 1..Len(d) }

\* existing_tags_lower = {tag.lower(): tag for tag in df['id'].to_list()}
existing_tags_lower(d) == { Lower(d[i].id) : i \in 1..Len(d) }


\* s.lower() == t, compared character by character
LowerEquals(s, t) ==
    Len(s) = Len(t) /\ \A n \in 1..Len(s) : LowerChar(s[n]) = t[n]


\* an update that also rewrites the id to the synthetic tag's spelling
SetCategory9AndId(row, tag_lower) ==
    IF LowerEquals(row.id, tag_lower)
    THEN [row EXCEPT !.category = 9, !.id = tag_lower] ELSE row

\* when(id.str.to_lowercase() == tag_lower).then(9).otherwise(category),
\* on one row of the frame
SetCategory9(row, tag_lower) ==
    IF LowerEquals(row.id, tag_lower)
    THEN [row EXCEPT !.category = 9] ELSE row


\* a new row whose id is put in the dataset's underscore form
NewSpecialRowUnderscored(tag) ==
    [id |-> [i \in 1..Len(tag) |-> IF tag[i] = " " THEN "_" ELSE tag[i]],
     category |-> 9, post_count |-> 0, aliases |-> NoAliases]

\* new_rows.append({...})
NewSpecialRow(tag) ==
    [id |-> tag, category |-> 9, post_count |-> 0, aliases |-> NoAliases]

\* def inject_or_change_specials(df, special_tags); order is the order in
\* which the loop meets the tags of the set.  A tag found in
\* existing_tags_lower rewrites the category column: a row is rewritten by
\* the calls whose tag_lower is its lowercased id, by each in the same way,
\* and left alone by the others.  Any other tag adds a row to new_rows,
\* and the new rows are concatenated behind the frame.
inject_or_change_specials(d, order) ==
    LET existing == existing_tags_lower(d)
        found == { tag_lower \in { Lower(order[i]) : i \in 1..Len(order) } :
                     tag_lower \in existing }
        NotFound(tag) == Lower(tag) \notin existing
        missing == SelectSeq(order, NotFound)
        new_rows == [i \in 1..Len(missing) |-> NewSpecialRow(missing[i])]
    IN  [i \in 1..Len(d) |->
            IF Lower(d[i].id) \in found
            THEN SetCategory9(d[i], Lower(d[i].id)) ELSE d[i]]
           \o new_rows

\* every order in which a set can be iterated
Orderings(S) ==
    { o \in [1..Cardinality(S) -> S] :
        \A i, j \in 1..Cardinality(S) : i # j => o[i] # o[j] }

\* for tag in special_tags: the orders the loop may run in.  Which of them
\* a process takes follows from its string hashes.
IterationOrders(S) == Orderings(S)

\* a sequence back to front
Reverse(seq) == [i \in 1..Len(seq) |-> seq[Len(seq) + 1 - i]]

\* a sequence with its even places moved behind its odd ones
OddsThenEvens(seq) ==
    LET odds == (Len(seq) + 1) \div 2
    IN  [i \in 1..Len(seq) |->
            IF i <= odds THEN seq[2 * i - 1] ELSE seq[2 * (i - odds)]]

\* three of the iteration orders of SYNTHETIC_CATEGORY_TAGS
SyntheticOrders ==
    { SyntheticListed, Reverse(SyntheticListed),
      OddsThenEvens(SyntheticListed) }

\* the orders the loop is run in below: every order of a small set, three
\* orders of the module constant.  The order decides nothing but the order
\* of new_rows, which the state does not hold: the loop in any other order
\* of IterationOrders(S) ends in the state it ends in for these.
SampleOrders(S) ==
    IF S = SYNTHETIC_CATEGORY_TAGS THEN SyntheticOrders ELSE Orderings(S)

\* the rows of a list as a bag: each row with the number of its places
BagOf(rows) ==
    [r \in { rows[i] : i \in 1..Len(rows) } |->
        Cardinality({ i \in 1..Len(rows) : rows[i] = r })]

\* one more row of a bag behind the rows taken out of it, with its copies
RowsStep(at, b) ==
    LET r == CHOOSE x \in at.left : TRUE
    IN  [left |-> at.left \ {r}, rows |-> at.rows \o [i \in 1..b[r] |-> r]]

\* the next n rows of a bag taken out of it, as far as rows are left: the
\* first half of them, then the rest
RECURSIVE RowsOf(_, _, _)
RowsOf(at, b, n) ==
    IF n = 0 \/ at.left = {} THEN at
    ELSE IF n = 1 THEN RowsStep(at, b)
    ELSE RowsOf(RowsOf(at, b, n \div 2), b, n - n \div 2)

\* the rows of a bag as a list, in one of their orders
BagRows(b) ==
    RowsOf([left |-> DOMAIN b, rows |-> <<>>], b, Cardinality(DOMAIN b)).rows

\* pl.concat([df, new_df]), once for each bag: a frame of the rows and the
\* bags appended to them.  The rows of a bag all have category 9 and no
\* aliases, and no id of an earlier row in any letter case, so that what
\* the injector, build_tag_maps and category_lookup make of the frame is
\* the same for every order of those rows.
Frame(rows, batches) ==
    rows \o ConcatAll([k \in 1..Len(batches) |-> BagRows(batches[k])])

BatchSizes(batches) ==
    [k \in 1..Len(batches) |-> BagCardinality(batches[k])]

\* the bags of the rows of d behind its first n rows, of the given sizes
RECURSIVE CutBatches(_, _, _)
CutBatches(d, n, sizes) ==
    IF sizes = <<>> THEN <<>>
    ELSE <<BagOf(SubSeq(d, n + 1, n + Head(sizes)))>>
         \o CutBatches(d, n + Head(sizes), Tail(sizes))

\* d is a frame that rows and batches stand for: the rows, then the rows of
\* bag after bag, each bag in some order
IsFrameOf(d, rows, batches) ==
    /\ Len(d) = Len(Frame(rows, batches))
    /\ SubSeq(d, 1, Len(rows)) = rows
    /\ CutBatches(d, Len(rows), BatchSizes(batches)) = batches

\* inject_or_change_specials on the frame of rows and batches: the rows
\* stay in their places and in their bags, and new_rows, when it is not
\* empty, makes one more bag
Injected(rows, batches, order) ==
    LET d == Frame(rows, batches)
        result == inject_or_change_specials(d, order)
        new_rows == SubSeq(result, Len(d) + 1, Len(result))
    IN  [df |-> SubSeq(result, 1, Len(rows)),
         appended |-> CutBatches(result, Len(rows), BatchSizes(batches))
                         \o (IF new_rows = <<>> THEN <<>>
                                               ELSE <<BagOf(new_rows)>>)]

----------------------------------------------------------------------------
(* interface.py: build_tag_maps                                            *)

EmptyDict == [k \in {} |-> <<>>]

\* d[k] = v
Put(d, k, v) == (k :> v) @@ d

\* d.get(k, default)
Get(d, k, default) == IF k \in DOMAIN d THEN d[k] ELSE default


\* an alias map that keeps the first declaration of an alias
RECURSIVE PutAliasesFirst(_, _, _)
PutAliasesFirst(m, aliases, tag) ==
    IF aliases = <<>> THEN m
    ELSE IF Lower(Head(aliases)) \in DOMAIN m
         THEN PutAliasesFirst(m, Tail(aliases), tag)
         ELSE PutAliasesFirst([x \in (DOMAIN m) \cup {Lower(Head(aliases))} |->
                                  IF x = Lower(Head(aliases)) THEN tag ELSE m[x]],
                              Tail(aliases), tag)

\* for alias in row['aliases']: alias_map[alias.lower()] = tag
RECURSIVE PutAliases(_, _, _)
PutAliases(m, aliases, tag) ==
    IF aliases = <<>> THEN m
    ELSE PutAliases(Put(m, Lower(Head(aliases)), tag), Tail(aliases), tag)

\* for row in df.iter_rows(named=True): the body of the loop for the row
\* behind the rows done.  The loop's variables are a record
AliasStep(at, rows) ==
    LET row == rows[at.done + 1]
        tag == Lower(row.id)
    IN  [alias_map |-> IF ~row.aliases.none /\ row.aliases.items # <<>>
                       THEN PutAliases(at.alias_map, row.aliases.items, tag)
                       ELSE at.alias_map,
         done |-> at.done + 1]

\* the loop over the next n rows, as far as there are rows: the loop over
\* the first half of them, then the loop over the rest
RECURSIVE AliasLoop(_, _, _)
AliasLoop(at, rows, n) ==
    IF n = 0 \/ at.done = Len(rows) THEN at
    ELSE IF n = 1 THEN AliasStep(at, rows)
    ELSE AliasLoop(AliasLoop(at, rows, n \div 2), rows, n - n \div 2)

\* def build_tag_maps(df): the two results
build_tags(d) == { Lower(d[i].id) : i \in 1..Len(d) }

build_alias_map(d) ==
    AliasLoop([alias_map |-> EmptyDict, done |-> 0], d, Len(d)).alias_map

----------------------------------------------------------------------------
(* modules/prompt_rearranger.py                                            *)

ArtistPrefix == <<"a","r","t","i","s","t",":">>

CommaSpace == <<",", " ">>

\* text.replace('\\(', '(').replace('\\)', ')')
Unescape(s) == Replace(Replace(s, <<"\\", "(">>, <<"(">>), <<"\\", ")">>, <<")">>)

\* category_lookup[row['id'].lower()] = row['category'], for the row behind
\* the rows done.  The loop's variables are a record
CategoryStep(at, rows) ==
    LET row == rows[at.done + 1]
    IN  [category_lookup |->
             Put(at.category_lookup, Lower(row.id), row.category),
         done |-> at.done + 1]

\* the loop over the next n rows, as far as there are rows: the loop over
\* the first half of them, then the loop over the rest
RECURSIVE CategoryLoop(_, _, _)
CategoryLoop(at, rows, n) ==
    IF n = 0 \/ at.done = Len(rows) THEN at
    ELSE IF n = 1 THEN CategoryStep(at, rows)
    ELSE CategoryLoop(CategoryLoop(at, rows, n \div 2), rows, n - n \div 2)

category_lookup(d) ==
    CategoryLoop([category_lookup |-> [k \in {} |-> 0], done |-> 0],
                 d, Len(d)).category_lookup


\* a lookup that lowercases the word but leaves its escapes in place
word_category_escaped(lookup, word) ==
    LET cleaned_word == Lower(word)
        category == Get(lookup, cleaned_word, -1)
    IN  IF category = -1
        THEN Get(lookup, Replace(cleaned_word, <<" ">>, <<"_">>), -1)
        ELSE category

\* the category found for one word: as it stands, then with underscores
word_category(lookup, word) ==
    LET cleaned_word == Unescape(Lower(word))
        category == Get(lookup, cleaned_word, -1)
    IN  IF category = -1
        THEN Get(lookup, Replace(cleaned_word, <<" ">>, <<"_">>), -1)
        ELSE category

\* word_categories.append((word, category, i))
word_categories(lookup, words) ==
    [k \in 1..Len(words) |->
        [word |-> words[k],
         category |-> word_category(lookup, words[k]),
         pos |-> k - 1]]


\* the order the interface's help text gives, synthetic tags after the rest
priority_order_help_text == <<4, 1, 0, 9, 5, -1>>

priority_order == <<9, 4, 1, 0, 5, -1>>

\* actual_category = category if category in [9, 4, 1, 0, 5] else -1
actual_category(category) ==
    IF category \in {9, 4, 1, 0, 5} THEN category ELSE -1

\* category_groups[cat]: the (word, original_pos) pairs, in appending order
category_group(wcs, cat) ==
    LET InCat(e) == actual_category(e.category) = cat
        sel == SelectSeq(wcs, InCat)
    IN  [k \in 1..Len(sel) |-> [word |-> sel[k].word, pos |-> sel[k].pos]]

\* sorted(group, key=lambda x: x[1]): a stable insertion sort on pos
RECURSIVE InsertByPos(_, _)
InsertByPos(sorted, e) ==
    IF sorted = <<>> THEN <<e>>
    ELSE IF sorted[Len(sorted)].pos <= e.pos THEN Append(sorted, e)
    ELSE Append(InsertByPos(SubSeq(sorted, 1, Len(sorted) - 1), e),
                sorted[Len(sorted)])


\* a sort that puts the later word first
RECURSIVE SortedByPosDescending(_)
SortedByPosDescending(group) ==
    IF group = <<>> THEN <<>>
    ELSE <<group[Len(group)]>>
         \o SortedByPosDescending(SubSeq(group, 1, Len(group) - 1))

RECURSIVE SortedByPos(_)
SortedByPos(group) ==
    IF group = <<>> THEN <<>>
    ELSE InsertByPos(SortedByPos(SubSeq(group, 1, Len(group) - 1)),
                     group[Len(group)])


\* a rendering that ignores notate_artists
words_in_category_always(group, cat, notate_artists) ==
    LET sorted_words == SortedByPos(group)
    IN  [k \in 1..Len(sorted_words) |->
            IF cat = 1
            THEN ArtistPrefix \o sorted_words[k].word
            ELSE sorted_words[k].word]

\* words_in_category, with the artist: prefix on category 1
words_in_category(group, cat, notate_artists) ==
    LET sorted_words == SortedByPos(group)
    IN  [k \in 1..Len(sorted_words) |->
            IF cat = 1 /\ notate_artists
            THEN ArtistPrefix \o sorted_words[k].word
            ELSE sorted_words[k].word]

\* for cat in priority_order: ... result_parts.append(...)
RECURSIVE ResultParts(_, _, _, _)
ResultParts(result_parts, wcs, cats, notate_artists) ==
    IF cats = <<>> THEN result_parts
    ELSE LET cat == Head(cats)
             group == category_group(wcs, cat)
         IN  IF group # <<>>
             THEN LET sep == IF result_parts # <<>> THEN <<CommaSpace>>
                                                    ELSE <<>>
                      joined == Join(words_in_category(group, cat,
                                                       notate_artists),
                                     CommaSpace)
                  IN  ResultParts(result_parts \o sep \o <<joined>>, wcs,
                                  Tail(cats), notate_artists)
             ELSE ResultParts(result_parts, wcs, Tail(cats), notate_artists)

\* rearrange_prompt once category_lookup is built
rearrange_words(lookup, input_text, notate_artists) ==
    IF input_text = <<>> THEN <<>>
    ELSE LET words == SplitTerms(input_text)
             wcs == word_categories(lookup, words)
         IN  ConcatAll(ResultParts(<<>>, wcs, priority_order, notate_artists))

\* def rearrange_prompt(df, input_text, tags, alias_map, notate_artists)
rearrange_prompt(d, input_text, notate_artists) ==
    rearrange_words(category_lookup(d), input_text, notate_artists)

----------------------------------------------------------------------------
(* interface.py: highlight_text                                            *)

\* def clean_tag_for_matching(tag)
clean_tag_for_matching(tag) == Replace(Lower(tag), <<" ">>, <<"_">>)

\* {t.lower() for t in SYNTHETIC_CATEGORY_TAGS}
SyntheticLower == { Lower(t) : t \in SYNTHETIC_CATEGORY_TAGS }


\* a classifier that looks for an alias before it looks for a tag
term_label_alias_first(term, tagset, aliases) ==
    LET has_prefix == StartsWith(Lower(term), ArtistPrefix)
        term_to_check == IF has_prefix THEN DropFirst(term, 7) ELSE term
        term_lower == Lower(term_to_check)
        cleaned_term == clean_tag_for_matching(term_to_check)
    IN  IF cleaned_term \in DOMAIN aliases THEN "alias"
        ELSE IF term_lower \in SyntheticLower THEN "tag"
        ELSE IF cleaned_term \in tagset THEN "tag"
        ELSE "unknown"

\* the label of one term of the rearranged text
term_label(term, tagset, aliases) ==
    LET has_prefix == StartsWith(Lower(term), ArtistPrefix)
        term_to_check == IF has_prefix THEN DropFirst(term, 7) ELSE term
        term_lower == Lower(term_to_check)
    IN  IF term_lower \in SyntheticLower THEN "tag"
        ELSE LET cleaned_term == clean_tag_for_matching(term_to_check)
             IN  IF cleaned_term \in tagset THEN "tag"
                 ELSE IF cleaned_term \in DOMAIN aliases THEN "alias"
                 ELSE "unknown"

Separator == [term |-> CommaSpace, label |-> "None"]

\* for i, term in enumerate(terms): result.append(...), then the separator
RECURSIVE HighlightLoop(_, _, _, _, _)
HighlightLoop(result, terms, i, tagset, aliases) ==
    IF i > Len(terms) THEN result
    ELSE LET entry == [term |-> terms[i],
                       label |-> term_label(terms[i], tagset, aliases)]
             sep == IF i < Len(terms) THEN <<Separator>> ELSE <<>>
         IN  HighlightLoop(result \o <<entry>> \o sep, terms, i + 1,
                           tagset, aliases)

\* text handed to the rearranger: parentheses un-escaped, artist: removed
highlight_clean(t) == Replace(Unescape(t), ArtistPrefix, <<>>)

\* highlight_text, the rearranger working with the given category_lookup
highlight_terms(lookup, t, tagset, aliases) ==
    IF t = <<>> THEN <<>>
    ELSE LET rearranged == rearrange_words(lookup, highlight_clean(t), TRUE)
         IN  HighlightLoop(<<>>, SplitTerms(rearranged), 1, tagset, aliases)

\* def highlight_text(text, tags, alias_map), on the module's df
highlight_text(d, t, tagset, aliases) ==
    highlight_terms(category_lookup(d), t, tagset, aliases)

----------------------------------------------------------------------------
(* Inputs: dataset rows as csv.reader yields them, and prompt texts.       *)

\* Header: the header row
Header ==
    <<<<"i", "d">>, <<"c", "a", "t", "e", "g", "o", "r", "y">>, <<"p", "o", "s", "t", "_", "c", "o", "u", "n", "t">>, <<"a", "l", "i", "a", "s", "e", "s">>>>

\* RowOld: a synthetic tag in another letter case, no aliases
RowOld ==
    <<<<"O", "l", "d">>, <<"5">>, <<"3">>, <<>>>>

\* RowAb: an artist with one alias
RowAb ==
    <<<<"a", "b">>, <<"1">>, <<"7">>, <<"c">>>>

\* RowAB: the same id in capitals, a quoted alias list that declares "c" again
RowAB ==
    <<<<"A", "B">>, <<"0">>, <<"1">>, <<"'", "C", ",", " ", "d", "'">>>>

\* RowA_b: an alias list that csv.reader split into two fields
RowA_b ==
    <<<<"a", "_", "b">>, <<"4">>, <<"2">>, <<"c">>, <<" ", "e">>>>

\* RowParen: an id with parentheses, a blank aliases cell
RowParen ==
    <<<<"(", "x", ")">>, <<"0">>, <<"4">>, <<" ">>>>

\* RowShort: a row of three fields
RowShort ==
    <<<<"z", "z">>, <<"1">>, <<"2">>>>

\* RowBad: a category that is no integer
RowBad ==
    <<<<"q">>, <<"x">>, <<"1">>, <<>>>>

\* RowLong: a category of more digits than int() converts
RowLong ==
    <<<<"w">>, [i \in 1..(MaxStrDigits + 1) |-> "1"], <<"1">>, <<>>>>

\* RowK5: the id of RowK as a meta tag
RowK5 ==
    <<<<"K">>, <<"5">>, <<"1">>, <<>>>>

\* RowK: a copyright tag: a category outside the priority list.  Its
\* aliases are a synthetic tag in underscore form and the id of RowAb
RowK ==
    <<<<"k">>, <<"3">>, <<"1">>,
      <<"v", "e", "r", "y", "_", "a", "w", "a", ",", " ", "A", "B">>>>

\* a synthetic tag with an internal space
PieceSynthetic == <<"v", "e", "r", "y", " ", "a", "w", "a">>

\* a tag written with a space for its underscore, after a blank
PieceSpaced == <<" ", "a", " ", "b">>

\* a tag in capitals
PieceCapitals == <<"A", "B">>

\* a tag with escaped parentheses
PieceEscaped == <<"\\", "(", "x", "\\", ")">>

\* a tag followed by a form feed, which strip() removes
PieceTrailing == <<"k", "\f">>

\* nothing between two commas
PieceEmpty == <<>>

\* a tag the user wrote with the artist: prefix
PiecePrefixed == <<"a", "r", "t", "i", "s", "t", ":", "a", "b">>

\* an alias behind a capitalised prefix
PieceCapPrefixed == <<"A", "r", "t", "i", "s", "t", ":", "c">>

\* bounds of the inputs
MaxRows == 2

MaxTerms == 3

MaxInjections == 2

RowPool == {RowOld, RowAb, RowAB, RowA_b, RowParen, RowShort, RowBad,
            RowLong}

\* sequences over S of length at most n
SeqsUpTo(S, n) == UNION { [1..k -> S] : k \in 0..n }

\* every file of at most MaxRows data rows, and the file with no row at all
Files == {<<>>} \cup { <<Header>> \o rows : rows \in SeqsUpTo(RowPool, MaxRows) }

\* two fixed datasets for the text operations
FileFull == <<Header, RowAb, RowA_b, RowParen, RowK, RowOld>>

FileSmall == <<Header, RowAB, RowShort, RowK5, RowOld>>

SampleFiles == {FileFull, FileSmall}

PiecePool == {PieceSynthetic, PieceSpaced, PieceCapitals, PieceEscaped,
              PieceTrailing, PieceEmpty, PiecePrefixed, PieceCapPrefixed}

\* every text of at most MaxTerms comma-separated pieces
Texts == { Join(ps, <<",">>) : ps \in SeqsUpTo(PiecePool, MaxTerms) }

SampleTexts == { Join(<<PieceCapitals, PieceSynthetic>>, <<",">>),
                 Join(<<PieceCapPrefixed, PieceEscaped>>, <<",">>) }

\* the special_tags arguments: the default, a set with one tag in two
\* spellings, and a set of two different tags
SpecialChoices ==
    { SYNTHETIC_CATEGORY_TAGS,
      { <<"O","L","D">>, <<"o","l","d">> },
      { <<"A","B">>, <<"n","e","w">> } }

----------------------------------------------------------------------------
(* The program: the module-level pipeline of interface.py, then the calls. *)

Init ==
    /\ pc = "start"
    /\ file = <<>>
    /\ df = <<>>
    /\ appended = <<>>
    /\ dfPrev = <<>>
    /\ appendedPrev = <<>>
    /\ special = {}
    /\ injections = 0
    /\ tags = {}
    /\ alias_map = EmptyDict
    /\ cat_lookup = EmptyDict
    /\ text = <<>>
    /\ notate = TRUE
    /\ out = <<>>
    /\ hl = <<>>

\* df = load_tag_dataset(path), the file one of the given files
Load(files) ==
    /\ pc = "start"
    /\ \E f \in files :
          /\ file' = f
          /\ IF LoadRaises(f)
             THEN pc' = "load_failed" /\ df' = df
             ELSE pc' = "loaded" /\ df' = load_tag_dataset(f)
    /\ UNCHANGED <<appended, dfPrev, appendedPrev, special, injections, tags,
                   alias_map, cat_lookup, text, notate, out, hl>>

\* df = inject_or_change_specials(df, special_tags), the loop over the set
\* in one of the given orders; a frame without rows has no 'id' column and
\* df['id'] raises
Inject(S, orders) ==
    /\ pc = "loaded"
    /\ IF df = <<>>
       THEN /\ pc' = "inject_failed"
            /\ UNCHANGED <<df, appended, dfPrev, appendedPrev, special,
                           injections>>
       ELSE /\ \E order \in orders :
                 LET result == Injected(df, appended, order)
                 IN  df' = result.df /\ appended' = result.appended
            /\ dfPrev' = df
            /\ appendedPrev' = appended
            /\ special' = S
            /\ injections' = 1
            /\ pc' = "injected"
    /\ UNCHANGED <<file, tags, alias_map, cat_lookup, text, notate, out, hl>>

\* inject_or_change_specials applied to its own result
InjectAgain ==
    /\ pc = "injected"
    /\ injections < MaxInjections
    /\ \E order \in SampleOrders(special) :
          LET result == Injected(df, appended, order)
          IN  df' = result.df /\ appended' = result.appended
    /\ dfPrev' = df
    /\ appendedPrev' = appended
    /\ injections' = injections + 1
    /\ UNCHANGED <<pc, file, special, tags, alias_map, cat_lookup,
                   text, notate, out, hl>>

\* tags, alias_map = build_tag_maps(df).  The frame is final from here on:
\* cat_lookup records the category_lookup every later rearrange_prompt call
\* builds from it
BuildMaps ==
    /\ pc = "injected"
    /\ LET d == Frame(df, appended)
       IN  /\ tags' = build_tags(d)
           /\ alias_map' = build_alias_map(d)
           /\ cat_lookup' = category_lookup(d)
    /\ pc' = "ready"
    /\ UNCHANGED <<file, df, appended, dfPrev, appendedPrev, special,
                   injections, text, notate, out, hl>>

\* rearrange_prompt(df, t, tags, alias_map, n), t one of the given texts
Rearrange(texts) ==
    /\ pc = "ready"
    /\ LET lookup == category_lookup(Frame(df, appended))
       IN  \E t \in texts, n \in BOOLEAN :
              /\ text' = t
              /\ notate' = n
              /\ out' = rearrange_words(lookup, t, n)
    /\ hl' = <<>>
    /\ pc' = "rearranged"
    /\ UNCHANGED <<file, df, appended, dfPrev, appendedPrev, special,
                   injections, tags, alias_map, cat_lookup>>

\* process_text(t): highlight_text(t, tags, alias_map), t one of the given
\* texts; out is the text the rearranger returned inside it
Highlight(texts) ==
    /\ pc = "ready"
    /\ LET lookup == category_lookup(Frame(df, appended))
       IN  \E t \in texts :
              /\ text' = t
              /\ out' = IF t = <<>> THEN <<>>
                        ELSE rearrange_words(lookup, highlight_clean(t), TRUE)
              /\ hl' = highlight_terms(lookup, t, tags, alias_map)
    /\ notate' = TRUE
    /\ pc' = "highlighted"
    /\ UNCHANGED <<file, df, appended, dfPrev, appendedPrev, special,
                   injections, tags, alias_map, cat_lookup>>

\* the call returns: its result has been handed over, the next call can come
Return ==
    /\ pc \in {"rearranged", "highlighted"}
    /\ pc' = "ready"
    /\ text' = <<>>
    /\ notate' = TRUE
    /\ out' = <<>>
    /\ hl' = <<>>
    /\ UNCHANGED <<file, df, appended, dfPrev, appendedPrev, special,
                   injections, tags, alias_map, cat_lookup>>

\* the pipeline over every small dataset, the text calls on two texts
Next ==
    \/ Load(Files)
    \/ \E S \in SpecialChoices : Inject(S, SampleOrders(S))
    \/ InjectAgain
    \/ BuildMaps
    \/ Rearrange(SampleTexts)
    \/ Highlight(SampleTexts)
    \/ Return

Spec == Init /\ [][Next]_vars

\* the pipeline on two datasets, the text calls over every small text
NextText ==
    \/ Load(SampleFiles)
    \/ Inject(SYNTHETIC_CATEGORY_TAGS, SampleOrders(SYNTHETIC_CATEGORY_TAGS))
    \/ BuildMaps
    \/ Rearrange(Texts)
    \/ Highlight(Texts)
    \/ Return

SpecText == Init /\ [][NextText]_vars

----------------------------------------------------------------------------
(* Claims about the loading pipeline, checked under Spec.                  *)

\* ids equal under case-insensitive comparison
SameIgnoringCase(a, b) ==
    Len(a) = Len(b) /\ \A i \in 1..Len(a) : LowerChar(a[i]) = LowerChar(b[i])

\* the data rows of the file (header excluded) with at least four fields
KeptRowIndexes == { i \in 2..Len(file) : Len(file[i]) >= 4 }

\* the k-th kept row, in file order
KthKept(k) ==
    CHOOSE i \in KeptRowIndexes :
        Cardinality({ j \in KeptRowIndexes : j < i }) = k - 1

\* C8: a data row with fewer than 4 fields is dropped without aborting the
\* load (the load aborts only on a missing header or on a row of four or
\* more fields whose numbers int() does not convert), and the Vocabulary
\* holds exactly the remaining data rows, one record each, in file order:
\* the id as it stands, the two numbers, and the aliases of the fields from
\* the fourth on.
C8_LenientLoad ==
    /\ pc = "loaded" =>
          /\ Len(df) = Cardinality(KeptRowIndexes)
          /\ appended = <<>>
          /\ \A k \in 1..Len(df) :
                LET row == file[KthKept(k)]
                    cell == Strip(Join(SubSeq(row, 4, Len(row)), <<",">>))
                IN  /\ df[k].id = row[1]
                    /\ df[k].category = ParseInt(row[2])
                    /\ df[k].post_count = ParseInt(row[3])
                    /\ df[k].aliases = parse_aliases(cell)
    /\ pc = "load_failed" =>
          \/ file = <<>>
          \/ \E i \in KeptRowIndexes : ~(IsInt(file[i][2]) /\ IsInt(file[i][3]))

\* a load that met one short row and one row it kept
C8_Witness ==
    /\ pc = "loaded"
    /\ Len(df) = 1
    /\ Len(file) = 3
    /\ \E i \in 2..Len(file) : Len(file[i]) < 4

\* the records of d that declare alias k, case-insensitively
Declarers(d, k) ==
    { i \in 1..Len(d) :
        /\ ~d[i].aliases.none
        /\ \E j \in 1..Len(d[i].aliases.items) :
              SameIgnoringCase(d[i].aliases.items[j], k) }

Max(S) == CHOOSE x \in S : \A y \in S : y <= x

\* C9: aliasMap maps each lowercase alias to the lowercase id of the last
\* record, in vocabulary order, that declares it case-insensitively; tagSet
\* is exactly the set of lowercase ids of all records.  Stated where
\* build_tag_maps returns; the maps and the vocabulary stay as they are.
C9_LastWriteWins ==
    pc = "ready" =>
       LET d == Frame(df, appended)
       IN  /\ \A i \in 1..Len(d) : \E t \in tags : SameIgnoringCase(t, d[i].id)
           /\ \A t \in tags :
                 /\ t = Lower(t)
                 /\ \E i \in 1..Len(d) : SameIgnoringCase(t, d[i].id)
           /\ \A i \in 1..Len(d) :
                 ~d[i].aliases.none =>
                    \A j \in 1..Len(d[i].aliases.items) :
                       \E k \in DOMAIN alias_map :
                          SameIgnoringCase(k, d[i].aliases.items[j])
           /\ \A k \in DOMAIN alias_map :
                 /\ k = Lower(k)
                 /\ Declarers(d, k) # {}
                 /\ alias_map[k] = Lower(d[Max(Declarers(d, k))].id)

\* two records with different ids declare the same alias in different case
C9_Witness ==
    /\ pc = "ready"
    /\ \E k \in DOMAIN alias_map :
          \E i, j \in Declarers(df, k) :
             /\ i < j
             /\ ~SameIgnoringCase(df[i].id, df[j].id)
             /\ k \notin { df[j].aliases.items[n] :
                             n \in 1..Len(df[j].aliases.items) }

\* a record matches a synthetic tag of the set the injector ran with
MatchesSpecial(id) == \E t \in special : SameIgnoringCase(t, id)

\* the record the injector leaves where r stood
AfterInject(r) ==
    IF MatchesSpecial(r.id) THEN [r EXCEPT !.category = 9] ELSE r

\* what C7 says of a call of the injector that returned, dfPrev and
\* appendedPrev being the vocabulary it was given; a record appended by an
\* earlier call keeps its place among the records that call appended
FrameEffect ==
    (pc = "injected" /\ injections >= 1) =>
       LET given == Frame(dfPrev, appendedPrev)
           NoMatch(id) ==
               \A j \in 1..Len(given) : ~SameIgnoringCase(id, given[j].id)
           new == IF Len(appended) > Len(appendedPrev)
                  THEN appended[Len(appended)] ELSE EmptyBag
       IN  /\ Len(df) = Len(dfPrev)
           /\ \A i \in 1..Len(dfPrev) : df[i] = AfterInject(dfPrev[i])
           /\ Len(appended) \in {Len(appendedPrev), Len(appendedPrev) + 1}
           /\ \A k \in 1..Len(appendedPrev) :
                 LET before == BagRows(appendedPrev[k])
                 IN  appended[k] = BagOf([i \in 1..Len(before) |->
                                            AfterInject(before[i])])
           /\ \A r \in DOMAIN new :
                 /\ r.id \in special
                 /\ NoMatch(r.id)
                 /\ r.category = 9
                 /\ r.post_count = 0
                 /\ r.aliases.none
                 /\ new[r] = 1
           /\ \A t \in special :
                 NoMatch(t) => Cardinality({ r \in DOMAIN new : r.id = t }) = 1

\* C7 as stated: on every vocabulary the injector returns, and each record
\* matching a synthetic tag gets category 9 and keeps its id spelling,
\* post_count, aliases and position; each synthetic tag with no match is
\* appended once, in its own spelling, with category 9, post_count 0 and no
\* aliases; every other record is unchanged.
C7_InjectFrameEveryVocabulary ==
    /\ pc # "inject_failed"
    /\ FrameEffect

\* C7, amended: on every vocabulary with at least one record the injector
\* returns (it raises on no other), and each record matching a synthetic
\* tag gets category 9 and keeps its id spelling, post_count, aliases and
\* position; each synthetic tag with no match is appended once, in its own
\* spelling, with category 9, post_count 0 and no aliases; every other
\* record is unchanged.
C7_InjectFrame ==
    /\ pc = "inject_failed" => df = <<>>
    /\ FrameEffect

\* one record was updated in place under another spelling, one was left
\* alone and one synthetic tag was appended
C7_Witness ==
    /\ pc = "injected"
    /\ injections = 1
    /\ Len(appended) > Len(appendedPrev)
    /\ \E i \in 1..Len(dfPrev) :
          /\ MatchesSpecial(dfPrev[i].id)
          /\ dfPrev[i].id \notin special
          /\ dfPrev[i].category # 9
    /\ \E i \in 1..Len(dfPrev) : ~MatchesSpecial(dfPrev[i].id)

Category9Ids(d) == { d[i].id : i \in { j \in 1..Len(d) : d[j].category = 9 } }

\* what C4 says of a second application that returned
SecondInjectSame ==
    (pc = "injected" /\ injections >= 2) =>
       LET given == Frame(dfPrev, appendedPrev)
           result == Frame(df, appended)
       IN  /\ Category9Ids(result) = Category9Ids(given)
           /\ Len(result) = Len(given)
           /\ Len(appended) = Len(appendedPrev)

\* C4 as stated: for every vocabulary the injector returns, and a second
\* application leaves the set of category-9 ids as the first left it, and
\* appends no record.
C4_InjectIdempotentEveryVocabulary ==
    /\ pc # "inject_failed"
    /\ SecondInjectSame

\* C4, amended: for every vocabulary with at least one record the injector
\* returns (it raises on no other), and a second application leaves the set
\* of category-9 ids as the first left it, and appends no record.
C4_InjectIdempotent ==
    /\ pc = "inject_failed" => df = <<>>
    /\ SecondInjectSame

\* the second application ran on a vocabulary in which the first had both
\* updated a record and appended one
C4_Witness ==
    /\ pc = "injected"
    /\ injections = 2
    /\ \E k \in 1..Len(appended) :
          \E r \in DOMAIN appended[k] : r.id \in special /\ r.post_count = 0
    /\ \E i \in 1..Len(df) :
          MatchesSpecial(df[i].id) /\ df[i].id \notin special

UniqueIds(d) ==
    \A i, j \in 1..Len(d) : i # j => ~SameIgnoringCase(d[i].id, d[j].id)

\* no two tags of the set are equal under case-insensitive comparison
UniqueTags(S) == \A a, b \in S : a # b => ~SameIgnoringCase(a, b)

\* C5 as stated: after the injector has run on any loaded vocabulary, no two
\* records have ids equal under case-insensitive comparison.
C5_UniqueAfterInject ==
    (pc = "injected" /\ injections >= 1)
       => LET result == Frame(df, appended) IN UniqueIds(result)

\* C5, amended: after the injector has run, with a synthetic set whose tags
\* differ under case-insensitive comparison, on a vocabulary whose ids are
\* unique under case-insensitive comparison, no two records have ids equal
\* under case-insensitive comparison.
C5_UniquePreserved ==
    (/\ pc = "injected"
     /\ injections >= 1
     /\ UniqueTags(special)
     /\ LET given == Frame(dfPrev, appendedPrev) IN UniqueIds(given))
       => LET result == Frame(df, appended) IN UniqueIds(result)

\* the injector met a record spelled differently from its synthetic tag and
\* updated it where it stood, next to a tag it had to append
C5_Witness ==
    /\ pc = "injected"
    /\ injections = 1
    /\ UniqueTags(special)
    /\ special # SYNTHETIC_CATEGORY_TAGS
    /\ UniqueIds(dfPrev)
    /\ Len(appended) > Len(appendedPrev)
    /\ Len(dfPrev) >= 2
    /\ \E i \in 1..Len(dfPrev) :
          MatchesSpecial(dfPrev[i].id) /\ dfPrev[i].id \notin special

----------------------------------------------------------------------------
(* Claims about the text operations, checked under SpecText.               *)

\* the dict BuildMaps recorded is the one a call builds from the frame,
\* whichever way round the appended rows stand
LookupOfDf ==
    pc \in {"ready", "rearranged", "highlighted"} =>
       LET d == Frame(df, appended)
           back == df \o Reverse(SubSeq(d, Len(df) + 1, Len(d)))
       IN  /\ cat_lookup = category_lookup(d)
           /\ cat_lookup = category_lookup(back)
           /\ tags = build_tags(back)
           /\ alias_map = build_alias_map(back)

\* the text the rearranger was called with, and the terms in and out
RearrangerInput == IF pc = "highlighted" THEN highlight_clean(text) ELSE text

InTerms == SplitTerms(RearrangerInput)

OutTerms == SplitTerms(out)

\* the place of a category in the output: 9, 4, 1, 0, 5, then the rest
BucketRank(category) ==
    CASE category = 9 -> 1
      [] category = 4 -> 2
      [] category = 1 -> 3
      [] category = 0 -> 4
      [] category = 5 -> 5
      [] OTHER -> 6

\* the buckets of a sequence of terms, from the categories the lookup gives
RECURSIVE RanksIn(_, _)
RanksIn(lookup, terms) ==
    IF terms = <<>> THEN <<>>
    ELSE <<BucketRank(word_category(lookup, Head(terms)))>>
         \o RanksIn(lookup, Tail(terms))

Ranks(terms) == RanksIn(cat_lookup, terms)

\* the bucket of one term
TermRank(w) == Ranks(<<w>>)[1]

\* C1: the output's terms are the input's terms in bucket order 9, 4, 1, 0,
\* 5, catch-all (every category outside the five is catch-all), two terms of
\* one bucket in their input order: the i-th input term stands after the
\* terms of earlier buckets and the earlier terms of its own bucket.
C1_BucketOrder ==
    pc \in {"rearranged", "highlighted"} =>
       LET ins == InTerms
           outs == OutTerms
           rank == Ranks(ins)
           Place(i) ==
               1 + Cardinality({ k \in 1..Len(ins) : rank[k] < rank[i] })
                 + Cardinality({ k \in 1..(i - 1) : rank[k] = rank[i] })
       IN  /\ Len(outs) = Len(ins)
           /\ \A i \in 1..Len(ins) :
                 outs[Place(i)] = IF rank[i] = 3 /\ notate
                                  THEN ArtistPrefix \o ins[i]
                                  ELSE ins[i]

\* a term moved ahead of an earlier one, past two different terms of one
\* bucket that kept their order, the first of them with a category outside
\* the five
C1_Witness ==
    /\ pc = "rearranged"
    /\ Len(InTerms) = 3
    /\ TermRank(InTerms[1]) = 6
    /\ TermRank(InTerms[2]) = 6
    /\ InTerms[1] # InTerms[2]
    /\ TermRank(InTerms[3]) < 6
    /\ word_category(cat_lookup, InTerms[1]) = 3

Count(seq, x) == Cardinality({ i \in 1..Len(seq) : seq[i] = x })

Range(seq) == { seq[i] : i \in 1..Len(seq) }

\* C2: the output's terms are the input's non-empty trimmed terms, each as
\* often as in the input, unchanged except for the artist: prefix that
\* exactly the category-1 terms carry when notateArtists is true.
C2_TermsConserved ==
    pc \in {"rearranged", "highlighted"} =>
       LET ins == InTerms
           outs == OutTerms
           rank == Ranks(ins)
           expected == [i \in 1..Len(ins) |->
                           IF notate /\ rank[i] = 3
                           THEN ArtistPrefix \o ins[i] ELSE ins[i]]
       IN  /\ Len(outs) = Len(expected)
           /\ \A x \in Range(outs) \cup Range(expected) :
                 Count(outs, x) = Count(expected, x)

\* an artist term given twice beside another term, notateArtists true
C2_Witness ==
    /\ pc = "rearranged"
    /\ notate
    /\ Len(InTerms) = 3
    /\ \E i, j, k \in 1..3 :
          /\ i # j
          /\ InTerms[i] = InTerms[j]
          /\ TermRank(InTerms[i]) = 3
          /\ TermRank(InTerms[k]) # 3

\* a leading artist: in any letter case
HasArtistPrefix(t) ==
    Len(t) >= 7 /\ \A i \in 1..7 : LowerChar(t[i]) = ArtistPrefix[i]

WithoutPrefix(t) ==
    IF HasArtistPrefix(t) THEN [i \in 1..(Len(t) - 7) |-> t[i + 7]] ELSE t

\* lowercase, spaces to underscores
Normalized(t) ==
    [i \in 1..Len(t) |-> IF t[i] = " " THEN "_" ELSE LowerChar(t[i])]

\* the label first-match precedence gives a displayed term
ExpectedLabel(t) ==
    LET u == WithoutPrefix(t)
    IN  IF \E y \in SYNTHETIC_CATEGORY_TAGS : SameIgnoringCase(y, u) THEN "tag"
        ELSE IF Normalized(u) \in tags THEN "tag"
        ELSE IF Normalized(u) \in DOMAIN alias_map THEN "alias"
        ELSE "unknown"

\* C3: every term of the rearranged text is emitted as it stands, labelled
\* by first-match precedence on the term without its leading artist: (any
\* letter case): synthetic tag, then tag, then alias, then unknown; a
\* separator entry stands between consecutive terms.
C3_ClassifyPrecedence ==
    pc = "highlighted" =>
       /\ Len(hl) = IF OutTerms = <<>> THEN 0 ELSE 2 * Len(OutTerms) - 1
       /\ \A j \in 1..Len(OutTerms) :
             /\ hl[2 * j - 1].term = OutTerms[j]
             /\ hl[2 * j - 1].label = ExpectedLabel(OutTerms[j])
       /\ \A j \in 1..(Len(OutTerms) - 1) :
             hl[2 * j] = [term |-> <<",", " ">>, label |-> "None"]

\* one result holds a synthetic tag with a space whose underscore form is
\* an alias, a term that is both a tag and an alias, and a prefixed alias
C3_Witness ==
    /\ pc = "highlighted"
    /\ \E i, j, k \in 1..Len(hl) :
          /\ hl[i].term \in SYNTHETIC_CATEGORY_TAGS
          /\ \E n \in 1..Len(hl[i].term) : hl[i].term[n] = " "
          /\ Normalized(hl[i].term) \in DOMAIN alias_map
          /\ hl[i].label = "tag"
          /\ Normalized(WithoutPrefix(hl[j].term)) \in tags
          /\ Normalized(WithoutPrefix(hl[j].term)) \in DOMAIN alias_map
          /\ hl[j].term \notin SYNTHETIC_CATEGORY_TAGS
          /\ hl[j].label = "tag"
          /\ hl[k].label = "alias"
          /\ HasArtistPrefix(hl[k].term)

\* the text contains the literal artist:
ContainsArtist(t) ==
    \E i \in 1..Len(t) :
       i + 6 <= Len(t) /\ \A n \in 1..7 : t[i + n - 1] = ArtistPrefix[n]

\* how many of the ranks are r
BucketSize(ranks, r) == Cardinality({ i \in 1..Len(ranks) : ranks[i] = r })

\* out with its artist: prefixes stripped, as interface.py strips them
OutStripped == Replace(out, ArtistPrefix, <<>>)

\* rearranging the stripped text again gives the same terms in the same
\* order (prefixes aside) and as many terms in every bucket as before
SecondPassSame ==
    LET again == rearrange_words(cat_lookup, OutStripped, notate)
        first == Ranks(InTerms)
        second == Ranks(SplitTerms(OutStripped))
    IN  /\ Replace(again, ArtistPrefix, <<>>) = OutStripped
        /\ \A r \in 1..6 : BucketSize(second, r) = BucketSize(first, r)

\* C6 as stated: for every text, stripping the artist: prefixes from the
\* rearranged text and rearranging again yields the same grouping and order.
C6_Reapplication == pc = "rearranged" => SecondPassSame

\* C6, amended: for every text that contains no literal artist:, stripping
\* the artist: prefixes from the rearranged text and rearranging again
\* yields the same grouping and term order, indeed the same output.
C6_ReapplicationNoPrefixTyped ==
    (pc = "rearranged" /\ ~ContainsArtist(text)) =>
       /\ SecondPassSame
       /\ rearrange_words(cat_lookup, OutStripped, notate) = out

\* a text without artist: whose artist term was moved and prefixed, after
\* two terms of one bucket
C6_Witness ==
    /\ pc = "rearranged"
    /\ notate
    /\ ~ContainsArtist(text)
    /\ ContainsArtist(out)
    /\ Len(InTerms) = 3
    /\ TermRank(InTerms[3]) = 3
    /\ TermRank(InTerms[1]) = TermRank(InTerms[2])
    /\ TermRank(InTerms[1]) > 3
    /\ InTerms[1] # InTerms[2]

\* the text written with bare parentheses
NotBackslash(c) == c # "\\"

Bare(t) == SelectSeq(t, NotBackslash)

HasEscape(t) ==
    \E i \in 1..(Len(t) - 1) : t[i] = "\\" /\ t[i + 1] \in {"(", ")"}

\* C10: a term written with \( and \) and the same term written with bare
\* parentheses get the same category and bucket from the rearranger and the
\* same label from the classifier; an escaped term whose bare normalized
\* form is a canonical tag is labelled tag.
C10_EscapedAsRaw ==
    /\ pc = "rearranged" =>
          /\ \A i \in 1..Len(InTerms) :
                word_category(cat_lookup, InTerms[i])
                   = word_category(cat_lookup, Bare(InTerms[i]))
          /\ rearrange_words(cat_lookup, Bare(text), notate) = Bare(out)
    /\ pc = "highlighted" =>
          /\ highlight_terms(cat_lookup, Bare(text), tags, alias_map) = hl
          /\ \A w \in Range(SplitTerms(text)) :
                (HasEscape(w) /\ Normalized(Bare(w)) \in tags) =>
                   /\ \E j \in 1..Len(hl) :
                         hl[j].term \in {Bare(w), ArtistPrefix \o Bare(w)}
                   /\ \A j \in 1..Len(hl) :
                         hl[j].term \in {Bare(w), ArtistPrefix \o Bare(w)}
                            => hl[j].label = "tag"

\* an escaped term that is a canonical tag once un-escaped, classified
\* beside an alias
C10_Witness ==
    /\ pc = "highlighted"
    /\ \E w \in Range(SplitTerms(text)) :
          /\ HasEscape(w)
          /\ Normalized(Bare(w)) \in tags
          /\ \E j \in 1..Len(hl) : hl[j].term = Bare(w) /\ hl[j].label = "tag"
    /\ \E j \in 1..Len(hl) : hl[j].label = "alias"

====
